---- MODULE Spec2Model ----
(***************************************************************************)
(* A model of dissect.archive's WIM reader (src/dissect/archive/wim.py).   *)
(*                                                                         *)
(* Three parts of the reader are modelled, each with specifications of     *)
(* its own over the shared variables:                                      *)
(*   SpecStream  CompressedStream: the chunk table and _read               *)
(*   SpecWim     WIM.__init__, the resource table, images(),               *)
(*               DirectoryEntry.open                                       *)
(*   SpecNav     the metadata stream of one image: DirectoryEntry parsing, *)
(*               iterdir generators, listdir and Image.get, all sharing    *)
(*               the one file position of the stream                       *)
(*   SpecParse   SpecNav over images holding a stream entry whose declared *)
(*               Length is too small                                       *)
(***************************************************************************)
EXTENDS Integers, Sequences, FiniteSets, TLC

VARIABLES
    \* ---- CompressedStream
    cs,         \* the resource behind the stream: original_size and the
                \* compressed size of each of its chunks (the file's content)
    junkLen,    \* length of what the decompressor returns for a byte range
                \* that is no chunk
    cache,      \* lru_cache of _read_chunk: sequence of [key, val], MRU first
    lastRead,   \* the last _read call: its arguments, fetches and result
    \* ---- WIM facade
    hdr,        \* the header fields WIM.__init__ tests
    table,      \* the on-disk resource table: sequence of [hash, flags]
    wim,        \* the WIM object: construction outcome, _resource_table, _images
    imgs,       \* what list(wim.images()) returned
    lastOpen,   \* the last DirectoryEntry.open call and its outcome
    \* ---- Image navigation
    img,        \* the knobs of the metadata stream (see ItemAt)
    negRead,    \* what fh.read(n) does for n < -1 in this run
    pos,        \* fh.tell() of the image's one metadata stream
    gens,       \* the iterdir generators alive
    lastCall    \* the last Image.get or listdir call and its outcome

vars == <<cs, junkLen, cache, lastRead, hdr, table, wim, imgs, lastOpen,
          img, negRead, pos, gens, lastCall>>

streamVars == <<cs, junkLen, cache, lastRead>>
wimVars == <<hdr, table, wim, imgs, lastOpen>>
navVars == <<img, negRead, pos, gens, lastCall>>

None == "None"

\* no entry; the name of an entry that has none (self.name = None)
NoEntry == 0 - 1
NoName == <<None>>

Min(a, b) == IF a < b THEN a ELSE b

RECURSIVE BitAnd(_, _)
BitAnd(a, b) ==
    IF a = 0 \/ b = 0 THEN 0
    ELSE (a % 2) * (b % 2) + 2 * BitAnd(a \div 2, b \div 2)

\* (n + 7) & (-8)
Align8(n) == ((n + 7) \div 8) * 8

(***************************************************************************)
(* CompressedStream                                                        *)
(***************************************************************************)
DEFAULT_CHUNK_SIZE == 32 * 1024

\* lru_cache(32)
LruSize == 32

\* bounds of the resources explored
MaxChunks == 3
MaxCSize == 2

\* struct.calcsize of one chunk-table entry: "I" unless original_size >
\* 0xFFFFFFFF, that is original_size >= 2^32 = 65536 * 65536
EntrySize(original_size) == IF original_size \div 65536 >= 65536 THEN 8 ELSE 4

\* number of chunks of the resource: ceil(original_size / CHUNK)
TotalChunks(original_size) ==
    (original_size + DEFAULT_CHUNK_SIZE - 1) \div DEFAULT_CHUNK_SIZE

\* num_chunks of __init__: the number of chunk-table entries
TableEntries(original_size) ==
    (original_size + (32 * 1024) - 1) \div (32 * 1024) - 1

RECURSIVE SumTo(_, _)
SumTo(s, n) == IF n = 0 THEN 0 ELSE s[n] + SumTo(s, n - 1)

\* The file: the chunk table of resource r. Entry i (1-based) is the offset of
\* chunk i (0-based), measured from the end of the table.
DiskTable(r) ==
    [i \in 1..TableEntries(r.original_size) |-> SumTo(r.csizes, i)]

TableBytes(r) == TableEntries(r.original_size) * EntrySize(r.original_size)

\* Resource.size of a compressed resource: chunk table and chunks
CompressedSize(r) == TableBytes(r) + SumTo(r.csizes, Len(r.csizes))

\* Where chunk k (0-based) lies in the file, from the resource's offset:
\* <<start, size>>
ChunkRegion(r, k) ==
    <<TableBytes(r) + SumTo(r.csizes, k), r.csizes[k + 1]>>

\* Uncompressed length of chunk k
ChunkLen(r, k) ==
    Min(DEFAULT_CHUNK_SIZE, r.original_size - k * DEFAULT_CHUNK_SIZE)

\* self._chunks after __init__
Chunks(r) ==
    IF TableEntries(r.original_size) = 0 THEN <<0>> ELSE DiskTable(r)

\* The decompressor applied to file[offset+start .. offset+start+size): a
\* buffer [src, len]. The bytes of chunk k come out of exactly chunk k's byte
\* range; any other range decompresses to bytes that belong to no chunk.
ReadChunkRaw(r, jl, start, size) ==
    IF \E k \in 0..(TotalChunks(r.original_size) - 1) :
            ChunkRegion(r, k) = <<start, size>>
    THEN LET k == CHOOSE k \in 0..(TotalChunks(r.original_size) - 1) :
                      ChunkRegion(r, k) = <<start, size>>
         IN  [src |-> <<"chunk", k>>, len |-> ChunkLen(r, k)]
    ELSE [src |-> <<"junk", start, size>>, len |-> jl]

CacheHas(c, key) == \E i \in 1..Len(c) : c[i].key = key

CacheGet(c, key) == c[CHOOSE i \in 1..Len(c) : c[i].key = key].val

\* lru_cache: a hit moves the entry to the front, a miss inserts at the front
\* and drops the least recently used entry beyond the capacity
CachePut(c, key, val) ==
    LET rest == SelectSeq(c, LAMBDA e : e.key # key)
        all == <<[key |-> key, val |-> val]>> \o rest
    IN  IF Len(all) > LruSize THEN SubSeq(all, 1, LruSize) ELSE all

\* buf[lo : hi] of a buffer [src, len]: a run [src, lo, hi]
Slice(buf, lo, hi) ==
    [src |-> buf.src, lo |-> Min(lo, buf.len), hi |-> Min(hi, buf.len)]

\* The loop of _read. st = [chunk, oic, length, offset, result, fetches, cache]
RECURSIVE ReadLoop(_, _, _)
ReadLoop(r, jl, st) ==
    LET chunks == Chunks(r)
        num_chunks == Len(chunks)
    IN  IF st.length = 0 \/ st.chunk >= num_chunks THEN st
        ELSE
        LET chunk_offset == chunks[st.chunk + 1]
            notLast == st.chunk < num_chunks - 1
            next_chunk_offset ==
                IF notLast THEN chunks[st.chunk + 2] ELSE CompressedSize(r)
            chunk_remaining ==
                IF notLast THEN DEFAULT_CHUNK_SIZE - st.oic
                ELSE (r.original_size - (st.chunk * DEFAULT_CHUNK_SIZE)) - st.oic
            read_length == Min(chunk_remaining, st.length)
            key == <<chunk_offset, next_chunk_offset - chunk_offset>>
            buf == IF CacheHas(st.cache, key) THEN CacheGet(st.cache, key)
                   ELSE ReadChunkRaw(r, jl, key[1], key[2])
        IN  ReadLoop(r, jl,
                [chunk |-> st.chunk + 1,
                 oic |-> st.oic,
                 length |-> st.length - read_length,
                 offset |-> st.offset + read_length,
                 result |-> Append(st.result,
                                   Slice(buf, st.oic, st.oic + read_length)),
                 fetches |-> Append(st.fetches, key),
                 cache |-> CachePut(st.cache, key, buf)])

\* CompressedStream._read(offset, length)
ReadRun(r, jl, c, offset, length) ==
    ReadLoop(r, jl,
        [chunk |-> offset \div DEFAULT_CHUNK_SIZE,
         oic |-> offset % DEFAULT_CHUNK_SIZE,
         length |-> length,
         offset |-> offset,
         result |-> <<>>,
         fetches |-> <<>>,
         cache |-> c])

NoRead == [valid |-> FALSE, offset |-> 0, length |-> 0,
           result |-> <<>>, fetches |-> <<>>]

\* the resources explored: 1..MaxChunks chunks, the last one full or half full
Resources ==
    { [original_size |-> n * DEFAULT_CHUNK_SIZE - d, csizes |-> s] :
        n \in 1..MaxChunks,
        d \in {0, DEFAULT_CHUNK_SIZE \div 2},
        s \in UNION { [1..m -> 1..MaxCSize] : m \in 1..MaxChunks } }

\* the offsets a read starts and ends at: every half chunk, and the end
ReadPoints(r) ==
    { p \in { i * (DEFAULT_CHUNK_SIZE \div 2) : i \in 0..(2 * MaxChunks) } :
        p <= r.original_size } \cup {r.original_size}

InitStream ==
    /\ cs \in { r \in Resources : Len(r.csizes) = TotalChunks(r.original_size) }
    /\ junkLen \in {0, DEFAULT_CHUNK_SIZE}
    /\ cache = <<>>
    /\ lastRead = NoRead

IdleStream ==
    /\ cs = [original_size |-> DEFAULT_CHUNK_SIZE, csizes |-> <<1>>]
    /\ junkLen = 0
    /\ cache = <<>>
    /\ lastRead = NoRead

\* seek(a); read(b - a): one _read of the range [a, b)
StreamRead ==
    \E a \in ReadPoints(cs), b \in ReadPoints(cs) :
        /\ a <= b
        /\ LET st == ReadRun(cs, junkLen, cache, a, b - a)
           IN  /\ cache' = st.cache
               /\ lastRead' = [valid |-> TRUE, offset |-> a, length |-> b - a,
                                result |-> st.result, fetches |-> st.fetches]
        /\ UNCHANGED <<cs, junkLen>>
        /\ UNCHANGED wimVars
        /\ UNCHANGED navVars

(***************************************************************************)
(* The metadata stream of an image                                         *)
(***************************************************************************)
\* c_wim.FILE_ATTRIBUTE
FILE_ATTRIBUTE_DIRECTORY == 16
FILE_ATTRIBUTE_REPARSE_POINT == 1024
FILE_ATTRIBUTE_ARCHIVE == 32

\* len(c_wim._DIRENTRY), len(c_wim._STREAMENTRY)
DIRENTRY_SIZE == 102
STREAMENTRY_SIZE == 38

\* The image of the test fixtures with one-letter names: the root holds
\* a (ads.txt, two stream entries), d (dir), f (file.txt), l (link.txt);
\* d holds a (another.txt); l, when it is a directory, holds m.
\* Every record starts on an 8-byte boundary; a name takes 2 bytes per
\* character and 2 bytes of NUL. g gives what varies:
\*   g.lattr  Attributes of l
\*   g.s2len  declared Length of a's second stream entry, which takes the
\*            bytes 272..314 and is padded to 320
ItemAt(g, p) ==
    CASE p = 8 ->
           [kind |-> "dentry", Length |-> 104, Attributes |-> FILE_ATTRIBUTE_DIRECTORY,
            SubdirOffset |-> 120, FileNameLength |-> 0, ShortNameLength |-> 0,
            Streams |-> 0, Hash |-> 0, name |-> <<>>]
      [] p = 112 -> [kind |-> "end", Length |-> 0]
      [] p = 120 ->
           [kind |-> "dentry", Length |-> 112, Attributes |-> FILE_ATTRIBUTE_ARCHIVE,
            SubdirOffset |-> 0, FileNameLength |-> 2, ShortNameLength |-> 0,
            Streams |-> 2, Hash |-> 0, name |-> <<"a">>]
      [] p = 232 ->
           [kind |-> "stream", Length |-> 40, StreamNameLength |-> 0,
            Hash |-> 1, name |-> <<>>]
      [] p = 272 ->
           [kind |-> "stream", Length |-> g.s2len, StreamNameLength |-> 2,
            Hash |-> 2, name |-> <<"s">>]
      [] p = 320 ->
           [kind |-> "dentry", Length |-> 112, Attributes |-> FILE_ATTRIBUTE_DIRECTORY,
            SubdirOffset |-> 664, FileNameLength |-> 2, ShortNameLength |-> 0,
            Streams |-> 0, Hash |-> 0, name |-> <<"d">>]
      [] p = 432 ->
           [kind |-> "dentry", Length |-> 106, Attributes |-> FILE_ATTRIBUTE_ARCHIVE,
            SubdirOffset |-> 0, FileNameLength |-> 2, ShortNameLength |-> 0,
            Streams |-> 0, Hash |-> 3, name |-> <<"f">>]
      [] p = 544 ->
           [kind |-> "dentry", Length |-> 112, Attributes |-> g.lattr,
            SubdirOffset |-> 784, FileNameLength |-> 2, ShortNameLength |-> 0,
            Streams |-> 0, Hash |-> 4, name |-> <<"l">>]
      [] p = 656 -> [kind |-> "end", Length |-> 0]
      [] p = 664 ->
           [kind |-> "dentry", Length |-> 112, Attributes |-> FILE_ATTRIBUTE_ARCHIVE,
            SubdirOffset |-> 0, FileNameLength |-> 2, ShortNameLength |-> 0,
            Streams |-> 0, Hash |-> 1, name |-> <<"a">>]
      [] p = 776 -> [kind |-> "end", Length |-> 0]
      [] p = 784 ->
           [kind |-> "dentry", Length |-> 112, Attributes |-> FILE_ATTRIBUTE_ARCHIVE,
            SubdirOffset |-> 0, FileNameLength |-> 2, ShortNameLength |-> 0,
            Streams |-> 0, Hash |-> 2, name |-> <<"m">>]
      [] p = 896 -> [kind |-> "end", Length |-> 0]

\* the positions ItemAt is defined at
ItemPos == {8, 112, 120, 232, 272, 320, 432, 544, 656, 664, 776, 784, 896}

\* fh.size of the metadata stream: the last terminator ends it
StreamSize == 904

\* where the SecurityBlock (no descriptors) ends
SecurityEnd == 8

\* The directory tree the stream encodes: each directory's children, in
\* on-disk order, by the position of their records
ChildList(p) ==
    CASE p = 8 -> <<120, 320, 432, 544>>
      [] p = 320 -> <<664>>
      [] p = 544 -> <<784>>
      [] OTHER -> <<>>

\* fh.read(n) at position p, for n >= 0: the position after it
ReadTo(p, n) == Min(p + n, StreamSize)

\* int.from_bytes(fh.read(8), "little") at position p; b"" at the end is 0.
\* -1 stands for bytes that are no Length field.
U64At(g, p) ==
    IF p \in ItemPos THEN ItemAt(g, p).Length
    ELSE IF p >= StreamSize THEN 0
    ELSE -1

\* One stream entry of DirectoryEntry.__init__, read at the aligned position
\* q: the position after it, or the error fh.read raises.
\* remaining = stream.Length - len(c_wim._STREAMENTRY) - name_length
StreamEnd(nr, q, name_length, remaining) ==
    IF remaining = 0
    THEN [error |-> None, pos |-> ReadTo(q, STREAMENTRY_SIZE + name_length)]
    ELSE IF remaining > 0
    THEN [error |-> None,
          pos |-> ReadTo(ReadTo(q, STREAMENTRY_SIZE + name_length), remaining)]
    ELSE IF remaining = 0 - 1 \/ nr = "all"
    THEN [error |-> None, pos |-> StreamSize]
    ELSE [error |-> "ValueError",
          pos |-> ReadTo(q, STREAMENTRY_SIZE + name_length)]

\* name_length of a stream entry once its name and NUL are read
NameLength(stream) ==
    IF stream.StreamNameLength # 0 THEN stream.StreamNameLength + 2 ELSE 0

\* self.streams[name] = stream.Hash
StreamsSet(streams, stream) ==
    [k \in DOMAIN streams \cup {stream.name} |->
        IF k = stream.name THEN stream.Hash ELSE streams[k]]

\* The stream entries of DirectoryEntry.__init__: n entries left to read at
\* position p, streams read so far. [error, pos, streams]
RECURSIVE ParseStreams(_, _, _, _, _)
ParseStreamsNext(g, nr, n, streams, e) ==
    IF e.error # None
    THEN [error |-> e.error, pos |-> e.pos, streams |-> streams]
    ELSE ParseStreams(g, nr, e.pos, n - 1, streams)

ParseStream(g, nr, q, n, streams, stream) ==
    IF stream.kind # "stream"
    THEN [error |-> "Desync", pos |-> q, streams |-> streams]
    ELSE ParseStreamsNext(g, nr, n, StreamsSet(streams, stream),
            StreamEnd(nr, q, NameLength(stream),
                      stream.Length - STREAMENTRY_SIZE - NameLength(stream)))

ParseStreams(g, nr, p, n, streams) ==
    IF n = 0 THEN [error |-> None, pos |-> p, streams |-> streams]
    ELSE IF Align8(p) >= StreamSize
    THEN [error |-> "EOFError", pos |-> StreamSize, streams |-> streams]
    ELSE IF Align8(p) \notin ItemPos
    THEN [error |-> "Desync", pos |-> Align8(p), streams |-> streams]
    ELSE ParseStream(g, nr, Align8(p), n, streams, ItemAt(g, Align8(p)))

\* end = fh.tell() once the names of the entry at start are read
NamesEnd(entry, start) ==
    ReadTo(ReadTo(start, DIRENTRY_SIZE
                         + (IF entry.FileNameLength # 0
                            THEN entry.FileNameLength + 2 ELSE 0)),
           IF entry.ShortNameLength # 0 THEN entry.ShortNameLength + 2 ELSE 0)

\* the position after self.extra is read, end as above
ExtraEnd(entry, start, end) ==
    IF entry.Length - (Align8(end) - start) > 0
    THEN ReadTo(end, entry.Length - (Align8(end) - start))
    ELSE IF entry.Length - (end - start) > 0
    THEN ReadTo(end, entry.Length - (end - start))
    ELSE end

\* the DirectoryEntry object, st the outcome of reading its streams
EntryOf(entry, start, st) ==
    [error |-> st.error, pos |-> st.pos, start |-> start,
     name |-> IF entry.FileNameLength # 0 THEN entry.name ELSE NoName,
     Attributes |-> entry.Attributes, SubdirOffset |-> entry.SubdirOffset,
     streams |-> st.streams]

ParseDentry(g, nr, start, entry) ==
    IF entry.kind # "dentry"
    THEN [error |-> "Desync", pos |-> start, start |-> start, name |-> NoName,
          Attributes |-> 0, SubdirOffset |-> 0, streams |-> <<>>]
    ELSE EntryOf(entry, start,
            IF entry.Streams # 0
            THEN ParseStreams(g, nr,
                    ExtraEnd(entry, start, NamesEnd(entry, start)),
                    entry.Streams, <<>>)
            ELSE [error |-> None,
                  pos |-> ExtraEnd(entry, start, NamesEnd(entry, start)),
                  streams |-> (<<>> :> entry.Hash)])

\* DirectoryEntry(image, fh) with fh at position p.
\* [error, pos, start, name, Attributes, SubdirOffset, streams]
ParseEntry(g, nr, p) ==
    IF p \notin ItemPos
    THEN [error |-> IF p >= StreamSize THEN "EOFError" ELSE "Desync",
          pos |-> p, start |-> p, name |-> NoName, Attributes |-> 0,
          SubdirOffset |-> 0, streams |-> <<>>]
    ELSE ParseDentry(g, nr, p, ItemAt(g, p))

\* Image.__init__: where the root entry is parsed, the next 8-byte boundary
\* after the security block
RootPos == SecurityEnd + ((0 - SecurityEnd) % 8)

\* Variant of is_dir that tests the DIRECTORY flag alone
IsDirFlagOnly(attributes) ==
    BitAnd(attributes, FILE_ATTRIBUTE_DIRECTORY) # 0

\* DirectoryEntry.is_dir
IsDir(attributes) ==
    BitAnd(attributes, FILE_ATTRIBUTE_DIRECTORY + FILE_ATTRIBUTE_REPARSE_POINT)
        = FILE_ATTRIBUTE_DIRECTORY

\* DirectoryEntry.is_file
IsFile(attributes) == ~IsDir(attributes)

(***************************************************************************)
(* iterdir, listdir, Image.get                                             *)
(***************************************************************************)
\* One turn of the loop of iterdir with fh at position p: read the next
\* record's Length, stop on a terminator, else rewind and parse the entry.
\* [kind: "done" | "yield" | "error", error, pos, entry, at]; at is p, the
\* position the Length was read at
Yielded(e, p) ==
    IF e.error # None
    THEN [kind |-> "error", error |-> e.error, pos |-> e.pos, entry |-> e,
          at |-> p]
    ELSE [kind |-> "yield", error |-> None, pos |-> e.pos, entry |-> e,
          at |-> p]

IterBody(g, nr, p) ==
    IF U64At(g, p) <= 8
    THEN [kind |-> "done", error |-> None, pos |-> ReadTo(p, 8),
          entry |-> NoEntry, at |-> p]
    ELSE Yielded(ParseEntry(g, nr, ReadTo(p, 8) - 8), p)

\* next() of an iterdir generator with fh at position p: [gen, pos].
\* gen = [state, dir, last, prevEnd, stop, error]: the entry it yielded last
\* was parsed at last.start and ended at last.end, the one it yielded before
\* that ended at prevEnd (NoEntry: there is none); once done, stop is where
\* it read the terminator.
\* r is the outcome of the turn of the loop
IterOutcome(gen, r) ==
    CASE r.kind = "done" ->
            [gen |-> [gen EXCEPT !.state = "done", !.stop = r.at],
             pos |-> r.pos]
      [] r.kind = "error" ->
            [gen |-> [gen EXCEPT !.state = "error", !.error = r.error],
             pos |-> r.pos]
      [] OTHER ->
            [gen |-> [state |-> "suspended", dir |-> gen.dir,
                      last |-> [start |-> r.entry.start, end |-> r.entry.pos],
                      prevEnd |-> gen.last.end,
                      stop |-> NoEntry,
                      error |-> None],
             pos |-> r.pos]

\* A new generator starts the function's body (the is_dir test, the seek to
\* SubdirOffset); dir is the entry it was called on
IterStart(g, nr, gen, p, dir) ==
    IF ~IsDir(dir.Attributes)
    THEN [gen |-> [gen EXCEPT !.state = "error",
                              !.error = "NotADirectoryError"],
          pos |-> p]
    ELSE IterOutcome(gen, IterBody(g, nr, dir.SubdirOffset))

\* a suspended one resumes after its yield, at the 8-byte-aligned position
\* fh is at now
IterResume(g, nr, gen, p) ==
    IF gen.state = "new"
    THEN IterStart(g, nr, gen, p, ParseEntry(g, nr, gen.dir))
    ELSE IterOutcome(gen, IterBody(g, nr, Align8(p)))

\* d[k] = v of a dict kept as a sequence of <<key, value>> in insertion order
DictSet(d, k, v) ==
    IF \E i \in 1..Len(d) : d[i][1] = k
    THEN [i \in 1..Len(d) |-> IF d[i][1] = k THEN <<k, v>> ELSE d[i]]
    ELSE Append(d, <<k, v>>)

\* the loop of iterdir run to its end, for listdir: [error, pos, dict]
RECURSIVE ListLoop(_, _, _, _)
ListNext(g, nr, acc, r) ==
    CASE r.kind = "done" -> [error |-> None, pos |-> r.pos, dict |-> acc]
      [] r.kind = "error" -> [error |-> r.error, pos |-> r.pos, dict |-> <<>>]
      [] OTHER -> ListLoop(g, nr, Align8(r.pos),
                           DictSet(acc, r.entry.name, r.entry.start))

ListLoop(g, nr, p, acc) == ListNext(g, nr, acc, IterBody(g, nr, p))

\* DirectoryEntry.listdir of the entry dir, fh at p
ListOf(g, nr, dir, p) ==
    IF ~IsDir(dir.Attributes)
    THEN [error |-> "NotADirectoryError", pos |-> p, dict |-> <<>>]
    ELSE ListLoop(g, nr, dir.SubdirOffset, <<>>)

ListRun(g, nr, e, p) == ListOf(g, nr, ParseEntry(g, nr, e), p)

\* the for loop of get over entry.iterdir(), fh at p: the first child whose
\* name is part. [error, pos, entry]
RECURSIVE FindChild(_, _, _, _)
FindNext(g, nr, part, r) ==
    CASE r.kind = "done" ->
            [error |-> "FileNotFoundError", pos |-> r.pos, entry |-> NoEntry]
      [] r.kind = "error" ->
            [error |-> r.error, pos |-> r.pos, entry |-> NoEntry]
      [] OTHER ->
            IF r.entry.name = part
            THEN [error |-> None, pos |-> r.pos, entry |-> r.entry.start]
            ELSE FindChild(g, nr, Align8(r.pos), part)

FindChild(g, nr, p, part) == FindNext(g, nr, part, IterBody(g, nr, p))

\* Variant of the rewrite that leaves the path as it is
ReplaceNothing(path) == path

\* path.replace("/", "\\")
Replace(path) ==
    [i \in 1..Len(path) |-> IF path[i] = "/" THEN "\\" ELSE path[i]]

\* s.split("\\"): cur is the component being read
RECURSIVE SplitFrom(_, _, _)
SplitFrom(s, i, cur) ==
    IF i > Len(s) THEN <<cur>>
    ELSE IF s[i] = "\\" THEN <<cur>> \o SplitFrom(s, i + 1, <<>>)
    ELSE SplitFrom(s, i + 1, Append(cur, s[i]))

Split(s) == SplitFrom(s, 1, <<>>)

\* the loop of get over the parts, from the entry parsed at e, fh at p
RECURSIVE GetLoop(_, _, _, _, _)
GetNext(g, nr, parts, f) ==
    IF f.error # None THEN f
    ELSE GetLoop(g, nr, Tail(parts), f.entry, f.pos)

GetIn(g, nr, parts, p, dir) ==
    IF ~IsDir(dir.Attributes)
    THEN [error |-> "NotADirectoryError", pos |-> p, entry |-> NoEntry]
    ELSE GetNext(g, nr, parts,
                 FindChild(g, nr, dir.SubdirOffset, Head(parts)))

\* Variant of the loop of get that looks an empty part up like a name
GetLoopEveryPart(g, nr, parts, e, p) ==
    IF parts = <<>> THEN [error |-> None, pos |-> p, entry |-> e]
    ELSE GetIn(g, nr, parts, p, ParseEntry(g, nr, e))

GetLoop(g, nr, parts, e, p) ==
    IF parts = <<>> THEN [error |-> None, pos |-> p, entry |-> e]
    ELSE IF Head(parts) = <<>> THEN GetLoop(g, nr, Tail(parts), e, p)
    ELSE GetIn(g, nr, parts, p, ParseEntry(g, nr, e))

\* Image.get(path, entry): entry is NoEntry (None) or the position of a held
\* entry
GetRun(g, nr, path, entry, p) ==
    GetLoop(g, nr, Split(Replace(path)),
            IF entry = NoEntry THEN RootPos ELSE entry, p)

(***************************************************************************)
(* WIM, Resource, DirectoryEntry.open                                      *)
(***************************************************************************)
\* c_wim: WIM_IMAGE_TAG, VERSION_DEFAULT, HEADER_FLAG, RESHDR_FLAG
WIM_IMAGE_TAG == "MSWIM"
VERSION_DEFAULT == 68864
HEADER_FLAG_SPANNED == 8
RESHDR_FLAG_METADATA == 2
RESHDR_FLAG_COMPRESSED == 4
RESHDR_FLAG_SPANNED == 8

\* the keys of c_wim.DECOMPRESSOR_MAP: XPRESS, LZX, LZMS, XPRESS2
DecompressorKeys == {131072, 262144, 524288, 2097152}

\* bound of the resource tables explored
MaxTable == 2

\* Resource.is_metadata
IsMetadata(flags) == BitAnd(flags, RESHDR_FLAG_METADATA) # 0

\* Resource.open of a resource with these flags, under the header's Flags:
\* the kind of stream returned, or the error raised
ResourceOpen(flags, hdrFlags) ==
    IF BitAnd(flags, RESHDR_FLAG_SPANNED) # 0 THEN "NotImplementedError"
    ELSE IF BitAnd(flags, RESHDR_FLAG_COMPRESSED) # 0
    THEN LET compression_flags == (hdrFlags \div 65536) * 65536
         IN  IF compression_flags \notin DecompressorKeys
             THEN "NotImplementedError"
             ELSE "CompressedStream"
    ELSE "RelativeStream"

IsStream(o) == o \in {"CompressedStream", "RelativeStream"}

\* Variant of TableLoop that keeps one image per hash: a metadata entry whose
\* hash the table already holds is not appended
RECURSIVE TableLoopOnePerHash(_, _, _, _)
TableLoopOnePerHash(t, i, tbl, images) ==
    IF i > Len(t) THEN [resource_table |-> tbl, images |-> images]
    ELSE TableLoopOnePerHash(t, i + 1, DictSet(tbl, t[i].hash, i),
            IF IsMetadata(t[i].flags)
               /\ ~(\E j \in 1..Len(tbl) : tbl[j][1] = t[i].hash)
            THEN Append(images, i) ELSE images)

\* table[hash] = resource of a dict kept as a sequence of <<hash, resource>>
\* in insertion order; a resource is the index of its entry in the file
RECURSIVE TableLoop(_, _, _, _)
TableLoop(t, i, tbl, images) ==
    IF i > Len(t) THEN [resource_table |-> tbl, images |-> images]
    ELSE TableLoop(t, i + 1, DictSet(tbl, t[i].hash, i),
                   IF IsMetadata(t[i].flags) THEN Append(images, i) ELSE images)

\* WIM._read_resource_table
ReadResourceTable(h, t) ==
    IF ~IsStream(ResourceOpen(h.OffsetTableFlags, h.Flags))
    THEN [state |-> "failed", error |-> ResourceOpen(h.OffsetTableFlags, h.Flags),
          tableRead |-> FALSE, resource_table |-> <<>>, images |-> <<>>]
    ELSE LET r == TableLoop(t, 1, <<>>, <<>>)
         IN  [state |-> "ok", error |-> None, tableRead |-> TRUE,
              resource_table |-> r.resource_table, images |-> r.images]

Failed(error) ==
    [state |-> "failed", error |-> error, tableRead |-> FALSE,
     resource_table |-> <<>>, images |-> <<>>]

\* Variant of WIM.__init__ that tests the version and the SPANNED flag before
\* the image tag
ConstructRunVersionFirst(h, t) ==
    IF h.Version # VERSION_DEFAULT THEN Failed("NotImplementedError")
    ELSE IF BitAnd(h.Flags, HEADER_FLAG_SPANNED) # 0
    THEN Failed("NotImplementedError")
    ELSE IF h.ImageTag # WIM_IMAGE_TAG THEN Failed("InvalidHeaderError")
    ELSE ReadResourceTable(h, t)

\* WIM.__init__
ConstructRun(h, t) ==
    IF h.ImageTag # WIM_IMAGE_TAG THEN Failed("InvalidHeaderError")
    ELSE IF h.Version # VERSION_DEFAULT THEN Failed("NotImplementedError")
    ELSE IF BitAnd(h.Flags, HEADER_FLAG_SPANNED) # 0
    THEN Failed("NotImplementedError")
    ELSE ReadResourceTable(h, t)

\* WIM.resources: the values of the dict, in its order
ResourcesOf(w) == [i \in 1..Len(w.resource_table) |-> w.resource_table[i][2]]

\* list(wim.images()): the images yielded, each [res, stream], until a
\* resource fails to open
RECURSIVE ImagesLoop(_, _, _, _, _)
ImagesLoop(h, t, images, i, acc) ==
    IF i > Len(images) THEN [valid |-> TRUE, error |-> None, yielded |-> acc]
    ELSE LET o == ResourceOpen(t[images[i]].flags, h.Flags)
         IN  IF ~IsStream(o) THEN [valid |-> TRUE, error |-> o, yielded |-> acc]
             ELSE ImagesLoop(h, t, images, i + 1,
                             Append(acc, [res |-> images[i], stream |-> o]))

ImagesRun(h, t, w) == ImagesLoop(h, t, w.images, 1, <<>>)

\* streams.get(name) of a name that is no key
NoHash == 0 - 1

\* "hash is None" of open: hash is the builtin function
BuiltinHashIsNone == FALSE

\* Variant of the loop of open that takes the first resource of the table
\* without comparing its hash
ScanResourcesFirst(h, t, rs, i, stream_hash) ==
    IF i > Len(rs)
    THEN [error |-> "FileNotFoundError", res |-> 0, stream |-> None]
    ELSE IF IsStream(ResourceOpen(t[rs[i]].flags, h.Flags))
    THEN [error |-> None, res |-> rs[i],
          stream |-> ResourceOpen(t[rs[i]].flags, h.Flags)]
    ELSE [error |-> ResourceOpen(t[rs[i]].flags, h.Flags), res |-> rs[i],
          stream |-> None]

\* the for loop of open over wim.resources()
RECURSIVE ScanResources(_, _, _, _, _)
ScanResources(h, t, rs, i, stream_hash) ==
    IF i > Len(rs)
    THEN [error |-> "FileNotFoundError", res |-> 0, stream |-> None]
    ELSE IF t[rs[i]].hash = stream_hash
    THEN LET o == ResourceOpen(t[rs[i]].flags, h.Flags)
         IN  IF IsStream(o) THEN [error |-> None, res |-> rs[i], stream |-> o]
             ELSE [error |-> o, res |-> rs[i], stream |-> None]
    ELSE ScanResources(h, t, rs, i + 1, stream_hash)

\* DirectoryEntry.open(name) of an entry with these streams
OpenRun(h, t, w, streams, name) ==
    LET stream_hash == IF name \in DOMAIN streams THEN streams[name] ELSE NoHash
    IN  IF BuiltinHashIsNone
        THEN [error |-> "FileNotFoundError", res |-> 0, stream |-> None]
        ELSE ScanResources(h, t, ResourcesOf(w), 1, stream_hash)

(***************************************************************************)
(* The archives, images and calls explored                                 *)
(***************************************************************************)
HeaderTags == {WIM_IMAGE_TAG, "PKZIP"}
HeaderVersions == {VERSION_DEFAULT, 3584}
\* 0; SPANNED; XPRESS | COMPRESSION; XPRESS | COMPRESSION | SPANNED
HeaderFlags == {0, 8, 131074, 131082}
\* the flags of a resource: plain, metadata, compressed metadata
TableFlags == {0, RESHDR_FLAG_METADATA,
               RESHDR_FLAG_METADATA + RESHDR_FLAG_COMPRESSED}
TableHashes == {1, 2}

Tables ==
    UNION { [1..n -> [hash : TableHashes, flags : TableFlags]] : n \in 0..MaxTable }

\* the image every part of the code reads the same way
PlainImage == [lattr |-> FILE_ATTRIBUTE_DIRECTORY, s2len |-> 48]

\* Attributes of l: a directory, a directory that is a reparse point, a file
\* that is a reparse point
LAttrs == {FILE_ATTRIBUTE_DIRECTORY,
           FILE_ATTRIBUTE_DIRECTORY + FILE_ATTRIBUTE_REPARSE_POINT,
           FILE_ATTRIBUTE_ARCHIVE + FILE_ATTRIBUTE_REPARSE_POINT}

\* Length of a's second stream entry: padded to 8 bytes, or not
GoodS2Len == {48, 42}

\* the images navigated: every value of either, not every pair
NavImages ==
    { [lattr |-> FILE_ATTRIBUTE_DIRECTORY, s2len |-> 48],
      [lattr |-> FILE_ATTRIBUTE_DIRECTORY + FILE_ATTRIBUTE_REPARSE_POINT,
       s2len |-> 42],
      [lattr |-> FILE_ATTRIBUTE_ARCHIVE + FILE_ATTRIBUTE_REPARSE_POINT,
       s2len |-> 48] }
\* ... or one byte, or 18 bytes, short of its header, name and NUL
ShortS2Len == {41, 24}

\* the entries open is called on, and the stream names
OpenEntries == {120, 432, 664}
OpenNames == {<<>>, <<"s">>, <<"x">>}

\* the generators alive at once: one; a nested walk of a yielded child is
\* that child's listdir, which runs its iterdir to the end
GenIds == {"g1"}

\* the paths get is called with: from the root, and from a held entry
Paths ==
    { <<>>, <<"a">>,
      <<"d", "/", "a">>, <<"d", "\\", "a">>, <<"\\", "d", "/", "/", "a">>,
      <<"d", "/", "x">>, <<"f", "/", "a">>, <<"l", "/", "m">> }

RelPaths == { <<"/">>, <<"a">> }

NoGen == [state |-> "idle", dir |-> NoEntry,
          last |-> [start |-> NoEntry, end |-> NoEntry],
          prevEnd |-> NoEntry, stop |-> NoEntry, error |-> None]

\* op: "get" (path from start, NoEntry for the root; entry is what it
\* returned) or "listdir" (of start; names are the keys of what it returned)
NoCall == [op |-> None, path |-> <<>>, start |-> NoEntry,
           error |-> None, entry |-> NoEntry, names |-> <<>>]

NoOpen == [valid |-> FALSE, entry |-> NoEntry, name |-> <<>>,
           error |-> None, res |-> 0, stream |-> None]

NoImages == [valid |-> FALSE, error |-> None, yielded |-> <<>>]

NewWim == [state |-> "new", error |-> None, tableRead |-> FALSE,
           resource_table |-> <<>>, images |-> <<>>]

(***************************************************************************)
(* Initial states                                                          *)
(***************************************************************************)
InitWim ==
    /\ hdr \in [ImageTag : HeaderTags, Version : HeaderVersions,
                Flags : HeaderFlags, ImageCount : {0, 1},
                OffsetTableFlags : {0, RESHDR_FLAG_COMPRESSED}]
    /\ table \in Tables
    /\ wim = NewWim
    /\ imgs = NoImages
    /\ lastOpen = NoOpen

IdleWim ==
    /\ hdr = [ImageTag |-> WIM_IMAGE_TAG, Version |-> VERSION_DEFAULT,
              Flags |-> 0, ImageCount |-> 0, OffsetTableFlags |-> 0]
    /\ table = <<>>
    /\ wim = NewWim
    /\ imgs = NoImages
    /\ lastOpen = NoOpen

\* Image.__init__ has parsed the security block and the root entry
NavStart ==
    /\ pos = ParseEntry(img, negRead, RootPos).pos
    /\ gens = [id \in GenIds |-> NoGen]
    /\ lastCall = NoCall

InitNav ==
    /\ img \in NavImages
    /\ negRead = "error"
    /\ NavStart

InitParse ==
    /\ img \in [lattr : {FILE_ATTRIBUTE_DIRECTORY}, s2len : ShortS2Len]
    /\ negRead \in {"error", "all"}
    /\ NavStart

IdleNav ==
    /\ img = PlainImage
    /\ negRead = "error"
    /\ NavStart

(***************************************************************************)
(* Actions                                                                 *)
(***************************************************************************)
\* WIM(fh)
Construct ==
    /\ wim.state = "new"
    /\ wim' = ConstructRun(hdr, table)
    /\ UNCHANGED <<hdr, table, imgs, lastOpen>>
    /\ UNCHANGED streamVars
    /\ UNCHANGED navVars

\* list(wim.images())
Images ==
    /\ wim.state = "ok"
    /\ imgs' = ImagesRun(hdr, table, wim)
    /\ UNCHANGED <<hdr, table, wim, lastOpen>>
    /\ UNCHANGED streamVars
    /\ UNCHANGED navVars

\* entry.open(name), entry an entry of an image of the archive
OpenStream ==
    /\ wim.state = "ok"
    /\ \E e \in OpenEntries, name \in OpenNames :
        LET r == OpenRun(hdr, table, wim,
                         ParseEntry(PlainImage, "error", e).streams, name)
        IN  lastOpen' = [valid |-> TRUE, entry |-> e, name |-> name,
                         error |-> r.error, res |-> r.res, stream |-> r.stream]
    /\ UNCHANGED <<hdr, table, wim, imgs>>
    /\ UNCHANGED streamVars
    /\ UNCHANGED navVars

\* The DirectoryEntry objects the caller holds: the root, what the
\* generators yielded last and what the last get returned
Held ==
    {RootPos}
    \cup { gens[id].last.start : id \in { i \in GenIds : gens[i].last.start # NoEntry } }
    \cup (IF lastCall.entry # NoEntry THEN {lastCall.entry} ELSE {})

\* gen = entry.iterdir(): nothing of the body runs yet
IterdirCall ==
    /\ \E id \in GenIds, e \in Held :
        /\ gens[id].state = "idle"
        /\ gens' = [gens EXCEPT ![id] = [NoGen EXCEPT !.state = "new", !.dir = e]]
    /\ UNCHANGED <<img, negRead, pos, lastCall>>
    /\ UNCHANGED streamVars
    /\ UNCHANGED wimVars

\* next(gen)
IterNext ==
    /\ \E id \in GenIds :
        /\ gens[id].state \in {"new", "suspended"}
        /\ LET r == IterResume(img, negRead, gens[id], pos)
           IN  /\ gens' = [gens EXCEPT ![id] = r.gen]
               /\ pos' = r.pos
    /\ UNCHANGED <<img, negRead, lastCall>>
    /\ UNCHANGED streamVars
    /\ UNCHANGED wimVars

\* the caller drops a generator
IterDrop ==
    /\ \E id \in GenIds :
        /\ gens[id].state # "idle"
        /\ gens' = [gens EXCEPT ![id] = NoGen]
    /\ UNCHANGED <<img, negRead, pos, lastCall>>
    /\ UNCHANGED streamVars
    /\ UNCHANGED wimVars

\* entry.listdir(): the keys of the dict it returns are recorded
Listdir ==
    /\ \E e \in Held :
        LET r == ListRun(img, negRead, e, pos)
        IN  /\ lastCall' = [op |-> "listdir", path |-> <<>>, start |-> e,
                            error |-> r.error, entry |-> NoEntry,
                            names |-> [i \in 1..Len(r.dict) |-> r.dict[i][1]]]
            /\ pos' = r.pos
    /\ UNCHANGED <<img, negRead, gens>>
    /\ UNCHANGED streamVars
    /\ UNCHANGED wimVars

\* image.get(path)
Get ==
    /\ \E path \in Paths :
        LET r == GetRun(img, negRead, path, NoEntry, pos)
        IN  /\ lastCall' = [op |-> "get", path |-> path, start |-> NoEntry,
                            error |-> r.error, entry |-> r.entry,
                            names |-> <<>>]
            /\ pos' = r.pos
    /\ UNCHANGED <<img, negRead, gens>>
    /\ UNCHANGED streamVars
    /\ UNCHANGED wimVars

\* image.get(path, entry)
GetFrom ==
    /\ \E path \in RelPaths, start \in Held :
        LET r == GetRun(img, negRead, path, start, pos)
        IN  /\ lastCall' = [op |-> "get", path |-> path, start |-> start,
                            error |-> r.error, entry |-> r.entry,
                            names |-> <<>>]
            /\ pos' = r.pos
    /\ UNCHANGED <<img, negRead, gens>>
    /\ UNCHANGED streamVars
    /\ UNCHANGED wimVars

NextStream == StreamRead
NextWim == Construct \/ Images \/ OpenStream
NextNav == IterdirCall \/ IterNext \/ IterDrop \/ Listdir \/ Get \/ GetFrom

StreamInit == InitStream /\ IdleWim /\ IdleNav
WimInit == IdleStream /\ InitWim /\ IdleNav
NavInit == IdleStream /\ IdleWim /\ InitNav
ParseInit == IdleStream /\ IdleWim /\ InitParse

SpecStream == StreamInit /\ [][NextStream]_vars
SpecWim == WimInit /\ [][NextWim]_vars
SpecNav == NavInit /\ [][NextNav]_vars
SpecParse == ParseInit /\ [][NextNav]_vars
(***************************************************************************)
(* Properties of CompressedStream (SpecStream)                             *)
(***************************************************************************)
\* result with its empty slices dropped
RECURSIVE NonEmptyRuns(_)
NonEmptyRuns(runs) ==
    IF runs = <<>> THEN <<>>
    ELSE IF Head(runs).lo = Head(runs).hi THEN NonEmptyRuns(Tail(runs))
    ELSE <<Head(runs)>> \o NonEmptyRuns(Tail(runs))

\* bytes a..b of the concatenated decompressed chunks of r, as runs: of each
\* chunk k the range holds bytes of, the bytes max(a, k*CHUNK)..min(b, (k+1)*CHUNK)
FullSlice(r, a, b) ==
    IF a = b THEN <<>>
    ELSE LET first == a \div DEFAULT_CHUNK_SIZE
             last == (b - 1) \div DEFAULT_CHUNK_SIZE
         IN  [i \in 1..(last - first + 1) |->
                LET k == first + i - 1
                IN  [src |-> <<"chunk", k>>,
                     lo |-> (IF a > k * DEFAULT_CHUNK_SIZE
                             THEN a ELSE k * DEFAULT_CHUNK_SIZE)
                            - k * DEFAULT_CHUNK_SIZE,
                     hi |-> Min(b, (k + 1) * DEFAULT_CHUNK_SIZE)
                            - k * DEFAULT_CHUNK_SIZE]]

\* C1: seeking to a and reading b - a bytes returns bytes a..b of the
\* concatenated decompressed chunks, whatever reads preceded it and whatever
\* the chunk cache holds, also for a range that starts inside one chunk and
\* ends in a later one.
C1_RangeReadIsSlice ==
    lastRead.valid =>
        NonEmptyRuns(lastRead.result)
            = FullSlice(cs, lastRead.offset, lastRead.offset + lastRead.length)

\* where chunk k of r starts and ends in the file, from the resource's offset:
\* chunk 0 right after the chunk table, chunk k >= 1 at table entry k - 1
\* (the k-th entry) past the end of the table; a chunk ends where the next one
\* starts, the last one at the resource's compressed size
TableChunkStart(r, k) ==
    TableBytes(r) + (IF k = 0 THEN 0 ELSE DiskTable(r)[k])

TableChunkEnd(r, k) ==
    IF k < TotalChunks(r.original_size) - 1
    THEN TableChunkStart(r, k + 1)
    ELSE CompressedSize(r)

\* C9: with T >= 2 chunks, a read fetches each chunk it covers, chunk 0
\* from offset 0 and chunk k from table entry k - 1, both past the end of the
\* table, up to the start of the next chunk or the compressed size; every
\* chunk, the last included, is fetched by a read that covers it.
C9_ChunkFetchesFollowTable ==
    (lastRead.valid /\ lastRead.length > 0
        /\ TotalChunks(cs.original_size) >= 2) =>
        LET first == lastRead.offset \div DEFAULT_CHUNK_SIZE
            last == (lastRead.offset + lastRead.length - 1)
                        \div DEFAULT_CHUNK_SIZE
        IN  /\ Len(lastRead.fetches) = last - first + 1
            /\ \A i \in 1..Len(lastRead.fetches) :
                /\ lastRead.fetches[i][1] = TableChunkStart(cs, first + i - 1)
                /\ lastRead.fetches[i][1] + lastRead.fetches[i][2]
                        = TableChunkEnd(cs, first + i - 1)

(***************************************************************************)
(* Properties of WIM construction, images() and open (SpecWim)             *)
(***************************************************************************)
\* bit b (a power of two) of n is set
BitSet(n, b) == (n \div b) % 2 = 1

\* C5: construction fails with InvalidHeaderError when the image tag is not
\* the MSWIM tag, whatever the version and flags; otherwise with
\* NotImplementedError when the version is not 0x00010d00 or the header's
\* SPANNED flag is set; in these cases the resource table is not read, and it
\* is read only for a header that passes the three checks.
C5_ConstructionChecksInOrder ==
    wim.state # "new" =>
        LET tagOK == hdr.ImageTag = "MSWIM"
            versionOK == hdr.Version = 68864
            spanned == BitSet(hdr.Flags, 8)
        IN  /\ ~tagOK =>
                /\ wim.state = "failed"
                /\ wim.error = "InvalidHeaderError"
                /\ ~wim.tableRead
            /\ (tagOK /\ (~versionOK \/ spanned)) =>
                /\ wim.state = "failed"
                /\ wim.error = "NotImplementedError"
                /\ ~wim.tableRead
            /\ wim.tableRead => (tagOK /\ versionOK /\ ~spanned)

\* a wrong tag wins over a wrong version and a set SPANNED flag
C5_WrongTagWrongVersion ==
    /\ wim.state = "failed"
    /\ wim.error = "InvalidHeaderError"
    /\ hdr.Version # VERSION_DEFAULT
    /\ BitSet(hdr.Flags, 8)

\* the indices of the table entries whose METADATA flag is set, ascending
RECURSIVE MetadataEntries(_, _)
MetadataEntries(t, i) ==
    IF i > Len(t) THEN <<>>
    ELSE (IF BitSet(t[i].flags, 2) THEN <<i>> ELSE <<>>)
            \o MetadataEntries(t, i + 1)

\* C7: images() yields one image per table entry whose METADATA flag is
\* set, in table order, each built from the stream that entry's own
\* resource opens to, also when entries share a hash and whatever ImageCount
\* is. The iteration ends early only with the error of the first metadata
\* resource that does not open.
C7_OneImagePerMetadataEntry ==
    imgs.valid =>
        LET m == MetadataEntries(table, 1)
            n == Len(imgs.yielded)
        IN  /\ n <= Len(m)
            /\ \A i \in 1..n :
                /\ imgs.yielded[i].res = m[i]
                /\ imgs.yielded[i].stream
                        = ResourceOpen(table[m[i]].flags, hdr.Flags)
                /\ IsStream(imgs.yielded[i].stream)
            /\ imgs.error = None => n = Len(m)
            /\ imgs.error # None =>
                /\ n < Len(m)
                /\ imgs.error = ResourceOpen(table[m[n + 1]].flags, hdr.Flags)
                /\ ~IsStream(imgs.error)

\* two images are yielded for two metadata entries of one hash, with an
\* ImageCount of 0
C7_TwoImagesOneHash ==
    /\ imgs.valid
    /\ imgs.error = None
    /\ Len(table) = 2
    /\ table[1].hash = table[2].hash
    /\ Len(imgs.yielded) = 2
    /\ imgs.yielded[1].res = 1
    /\ imgs.yielded[2].res = 2
    /\ hdr.ImageCount = 0

\* the streams of the entries open is called on: name -> hash, read off the
\* records of the metadata stream
StreamsOf(e) ==
    CASE e = 120 -> (<<>> :> 1) @@ (<<"s">> :> 2)
      [] e = 432 -> (<<>> :> 3)
      [] e = 664 -> (<<>> :> 1)

\* C4: open(name) fails with FileNotFoundError when name is no key of the
\* entry's streams, and when the stream's hash is the hash of no resource of
\* the table; in every other case its outcome is that of opening a resource
\* whose hash equals the stream's hash, never one of another hash.
C4_OpenFindsResourceByHash ==
    lastOpen.valid =>
        LET streams == StreamsOf(lastOpen.entry)
            named == lastOpen.name \in DOMAIN streams
            matches == IF named
                       THEN { i \in 1..Len(table) :
                                table[i].hash = streams[lastOpen.name] }
                       ELSE {}
        IN  /\ ~named => lastOpen.error = "FileNotFoundError"
            /\ (named /\ matches = {}) => lastOpen.error = "FileNotFoundError"
            /\ (named /\ matches # {}) =>
                /\ lastOpen.res \in matches
                /\ LET o == ResourceOpen(table[lastOpen.res].flags, hdr.Flags)
                   IN  IF IsStream(o)
                       THEN lastOpen.error = None /\ lastOpen.stream = o
                       ELSE lastOpen.error = o

\* open of a named stream returns the stream of the second resource of the
\* table, the first one having another hash
C4_OpenSkipsOtherHash ==
    /\ lastOpen.valid
    /\ lastOpen.entry = 120
    /\ lastOpen.name = <<"s">>
    /\ lastOpen.error = None
    /\ lastOpen.res = 2
    /\ table[1].hash = 1
    /\ table[2].hash = 2

(***************************************************************************)
(* Properties of navigation (SpecNav)                                      *)
(***************************************************************************)
\* path with every "/" replaced by "\\"
Backslashed(path) ==
    [i \in 1..Len(path) |-> IF path[i] = "/" THEN "\\" ELSE path[i]]

\* C2: get(path) resolves to the entry that get of the path with every "/"
\* replaced by "\\" resolves to, and to the same entry on every call,
\* whatever navigation ran before it: its outcome is that of the rewritten
\* path looked up on a stream nothing has read yet.
C2_GetIsFunctionOfPath ==
    lastCall.op = "get" =>
        LET fresh == GetRun(img, negRead, Backslashed(lastCall.path),
                            lastCall.start, 0)
        IN  /\ lastCall.error = fresh.error
            /\ lastCall.entry = fresh.entry

\* get("d/a") finds d's child a while a generator over the root is suspended
C2_SlashPathDuringIteration ==
    /\ lastCall.op = "get"
    /\ lastCall.path = <<"d", "/", "a">>
    /\ lastCall.start = NoEntry
    /\ lastCall.entry = 664
    /\ gens["g1"].state = "suspended"
    /\ gens["g1"].dir = RootPos

\* the record at p is a directory: DIRECTORY set, REPARSE_POINT clear
DirectoryAt(g, p) ==
    /\ BitSet(ItemAt(g, p).Attributes, 16)
    /\ ~BitSet(ItemAt(g, p).Attributes, 1024)

\* the children of the record at p named part, in on-disk order
ChildrenNamed(g, p, part) ==
    SelectSeq(ChildList(p), LAMBDA c : ItemAt(g, c).name = part)

\* The walk of the directory tree along parts from the record at e; a
\* non-directory met with a part left to look up ends it with nondir
RECURSIVE TreeWalk(_, _, _, _)
TreeWalk(g, parts, e, nondir) ==
    IF parts = <<>> THEN [error |-> None, entry |-> e]
    ELSE IF Head(parts) = <<>> THEN TreeWalk(g, Tail(parts), e, nondir)
    ELSE IF ~DirectoryAt(g, e) THEN [error |-> nondir, entry |-> NoEntry]
    ELSE IF ChildrenNamed(g, e, Head(parts)) = <<>>
    THEN [error |-> "FileNotFoundError", entry |-> NoEntry]
    ELSE TreeWalk(g, Tail(parts),
                  Head(ChildrenNamed(g, e, Head(parts))), nondir)

\* the walk the last get stands for
LastWalk(nondir) ==
    TreeWalk(img, Split(Backslashed(lastCall.path)),
             IF lastCall.start = NoEntry THEN RootPos ELSE lastCall.start,
             nondir)

\* C3 as stated: get fails with FileNotFoundError whenever a non-empty
\* component has no child of that name under the entry reached so far, a
\* file (which has no children) included; it returns the entry of the last
\* component when all match, and the starting entry when no component is
\* non-empty.
C3_MissingIsFileNotFound ==
    lastCall.op = "get" =>
        /\ lastCall.error = LastWalk("FileNotFoundError").error
        /\ lastCall.entry = LastWalk("FileNotFoundError").entry

\* C3: get fails with FileNotFoundError whenever a non-empty component has
\* no child of that name under the directory reached so far, and with
\* NotADirectoryError when the entry reached so far is not a directory (a
\* file, a reparse point); it returns the entry of the last component when
\* all match, and the starting entry when no component is non-empty.
C3_MissingOrNotADirectory ==
    lastCall.op = "get" =>
        /\ lastCall.error = LastWalk("NotADirectoryError").error
        /\ lastCall.entry = LastWalk("NotADirectoryError").entry

\* get("f/a"), f a file, fails with NotADirectoryError
C3_ThroughAFile ==
    /\ lastCall.op = "get"
    /\ lastCall.path = <<"f", "/", "a">>
    /\ lastCall.start = NoEntry
    /\ lastCall.error = "NotADirectoryError"

\* C6: every entry iterdir of a directory yields is parsed at the
\* directory's SubdirOffset (the first) or at the 8-byte-aligned position
\* where the entry yielded before it ended, and the iteration stops at the
\* terminator after the last one, so no child is skipped or repeated, also
\* when get or listdir run on the image between two yields.
C6_YieldsFollowOnDisk ==
    \A id \in GenIds :
        LET gen == gens[id]
            first == ItemAt(img, gen.dir).SubdirOffset
        IN  /\ gen.state = "suspended" =>
                gen.last.start = IF gen.prevEnd = NoEntry THEN first
                                 ELSE Align8(gen.prevEnd)
            /\ gen.state = "done" =>
                gen.stop = IF gen.last.end = NoEntry THEN first
                           ELSE Align8(gen.last.end)

\* C8: is_dir is true exactly when DIRECTORY is set and REPARSE_POINT is
\* clear, is_file is its negation; iterdir and listdir fail with
\* NotADirectoryError exactly when is_dir is false, a directory that is a
\* reparse point included, and then yield no child.
C8_DirectoryTests ==
    /\ \A p \in {8, 120, 320, 432, 544, 664, 784} :
        /\ IsDir(ItemAt(img, p).Attributes) = DirectoryAt(img, p)
        /\ IsFile(ItemAt(img, p).Attributes) = ~DirectoryAt(img, p)
    /\ \A id \in GenIds :
        gens[id].state \in {"suspended", "done", "error"} =>
            /\ (gens[id].error = "NotADirectoryError")
                    = ~DirectoryAt(img, gens[id].dir)
            /\ (gens[id].state = "error") = ~DirectoryAt(img, gens[id].dir)
            /\ ~DirectoryAt(img, gens[id].dir) =>
                    gens[id].last.start = NoEntry
    /\ lastCall.op = "listdir" =>
        /\ (lastCall.error = "NotADirectoryError")
                = ~DirectoryAt(img, lastCall.start)
        /\ (lastCall.error = None) = DirectoryAt(img, lastCall.start)
        /\ ~DirectoryAt(img, lastCall.start) => lastCall.names = <<>>

\* iterdir of l, a directory that is a reparse point, fails with
\* NotADirectoryError at its first next()
C8_ReparseDirectoryIterdir ==
    /\ gens["g1"].dir = 544
    /\ img.lattr = FILE_ATTRIBUTE_DIRECTORY + FILE_ATTRIBUTE_REPARSE_POINT
    /\ gens["g1"].state = "error"
    /\ gens["g1"].error = "NotADirectoryError"
    /\ gens["g1"].last.start = NoEntry

(***************************************************************************)
(* Properties of parsing a short stream entry (SpecParse)                  *)
(***************************************************************************)
\* where a's second stream entry, its header, name and NUL, ends
ShortStreamEnd == 272 + STREAMENTRY_SIZE + 4

\* C10: parsing a, whose second stream entry declares a Length smaller than
\* its header, name and NUL, fails: every call that reads the root's
\* children ends in an error, no byte past that stream entry is read, and
\* no entry is yielded or returned.
C10_ShortStreamEntryFails ==
    /\ pos <= ShortStreamEnd
    /\ \A id \in GenIds :
        gens[id].state \notin {"idle", "new"} =>
            /\ gens[id].state = "error"
            /\ gens[id].last.start = NoEntry
    /\ lastCall.op = "listdir" =>
        /\ lastCall.error # None
        /\ lastCall.names = <<>>
    /\ (lastCall.op = "get"
            /\ \E i \in 1..Len(lastCall.path) :
                    lastCall.path[i] \notin {"/", "\\"}) =>
        /\ lastCall.error # None
        /\ lastCall.entry = NoEntry

====
